---------------------------- MODULE Spec2Model ----------------------------
(***************************************************************************)
(* Model of the NID extraction service: the field-extraction engine        *)
(* (nid_extractor.py), the similarity report of the /process_image handler *)
(* (app.py) and the rate limiter (utils.py).                               *)
(*                                                                         *)
(* Strings are sequences of one-character strings, so that the regular     *)
(* expressions of the extractor can be matched character by character.     *)
(* A position i in 0..Len(text) is the number of characters before it.     *)
(***************************************************************************)
EXTENDS Integers, Sequences, FiniteSets, TLC

(***************************************************************************)
(* Characters and the str methods the code applies to them.                *)
(***************************************************************************)
UpperSeq == <<"A","B","C","D","E","F","G","H","I","J","K","L","M","N","O","P","Q","R","S","T","U","V","W","X","Y","Z">>
LowerSeq == <<"a","b","c","d","e","f","g","h","i","j","k","l","m","n","o","p","q","r","s","t","u","v","w","x","y","z">>
UpperAZ == {UpperSeq[k] : k \in 1..26}
LowerAZ == {LowerSeq[k] : k \in 1..26}
Letter == UpperAZ \cup LowerAZ
Digit == {"0","1","2","3","4","5","6","7","8","9"}
\* \s: the whitespace characters of the model's alphabet
Space == {" ", "\t", "\n"}
\* \w, as \b reads it
WordChar == Letter \cup Digit \cup {"_"}

\* the lower-case letter of each upper-case letter, and the reverse
ToLower == [c \in UpperAZ |-> LowerSeq[CHOOSE k \in 1..26 : UpperSeq[k] = c]] @@ <<>>
ToUpper == [c \in LowerAZ |-> UpperSeq[CHOOSE k \in 1..26 : LowerSeq[k] = c]] @@ <<>>

\* str.lower() of one character
LowerChar(c) == IF c \in UpperAZ THEN ToLower[c] ELSE c

\* str.upper() of one character
UpperChar(c) == IF c \in LowerAZ THEN ToUpper[c] ELSE c

\* str.lower()
lower(s) == [k \in 1..Len(s) |-> LowerChar(s[k])]

\* str.upper()
upper(s) == [k \in 1..Len(s) |-> UpperChar(s[k])]

\* str.strip(): leading and trailing whitespace removed
RECURSIVE lstrip(_)
lstrip(s) == IF Len(s) > 0 /\ s[1] \in Space THEN lstrip(Tail(s)) ELSE s

RECURSIVE rstrip(_)
rstrip(s) ==
  IF Len(s) > 0 /\ s[Len(s)] \in Space THEN rstrip(SubSeq(s, 1, Len(s) - 1)) ELSE s

strip(s) == rstrip(lstrip(s))

\* sub in s (substring test)
Contains(s, sub) ==
  \E i \in 0..(Len(s) - Len(sub)) : \A k \in 1..Len(sub) : s[i + k] = sub[k]

\* " ".join(blocks) for a list of strings
RECURSIVE join(_)
join(blocks) ==
  IF Len(blocks) = 0 THEN <<>>
  ELSE IF Len(blocks) = 1 THEN blocks[1]
  ELSE blocks[1] \o <<" ">> \o join(Tail(blocks))

(***************************************************************************)
(* re.search: a backtracking matcher over pattern programs.  A program is  *)
(* a sequence of nodes; alternatives and greedy repetitions are tried in   *)
(* the order Python's re tries them, so the first success is re's match.   *)
(***************************************************************************)
Lit(s) == [t |-> "lit", s |-> s]
Set(S) == [t |-> "set", s |-> S]
\* S{lo,hi} for a character class S, greedy; hi = -1 is unbounded
Rep(S, lo, hi) == [t |-> "rep", s |-> S, lo |-> lo, hi |-> hi]
Star(S) == Rep(S, 0, -1)
Plus(S) == Rep(S, 1, -1)
\* (?:r)? for a program r, greedy
Opt(r) == [t |-> "opt", r |-> r]
Alt(a) == [t |-> "alt", a |-> a]
\* (?=r)
Look(r) == [t |-> "look", r |-> r]
\* \b
WB == [t |-> "wb"]
\* $
EOS == [t |-> "eos"]
\* the parentheses of group 1
Open == [t |-> "open"]
Close == [t |-> "close"]

NoMatch == [ok |-> FALSE, end |-> 0, gs |-> 0, ge |-> 0]

\* one character against a literal or a class, under re.IGNORECASE when ic
CharIn(c, S, ic) ==
  IF ic THEN c \in S \/ LowerChar(c) \in S \/ UpperChar(c) \in S ELSE c \in S

LitAt(s, text, i, ic) ==
  /\ i + Len(s) <= Len(text)
  /\ \A k \in 1..Len(s) :
       IF ic THEN LowerChar(text[i + k]) = LowerChar(s[k]) ELSE text[i + k] = s[k]

WordBoundaryAt(text, i) ==
  (i > 0 /\ text[i] \in WordChar) # (i < Len(text) /\ text[i + 1] \in WordChar)

EndAt(text, i) ==
  \/ i = Len(text)
  \/ i = Len(text) - 1 /\ text[Len(text)] = "\n"

\* how many characters from position i on are in S, at most hi of them
RunLength(S, text, i, hi, ic) ==
  LET cap == IF hi >= 0 /\ hi < Len(text) - i THEN hi ELSE Len(text) - i
  IN CHOOSE k \in 0..cap :
       /\ \A j \in 1..k : CharIn(text[i + j], S, ic)
       /\ k = cap \/ ~CharIn(text[i + k + 1], S, ic)

\* the first success of a sequence of attempts
FirstOk(tries) ==
  IF \E k \in 1..Len(tries) : tries[k].ok
  THEN tries[CHOOSE k \in 1..Len(tries) :
               tries[k].ok /\ \A j \in 1..(k - 1) : ~tries[j].ok]
  ELSE NoMatch

RECURSIVE Run(_, _, _, _, _, _)
Run(prog, text, i, gs, ge, ic) ==
  IF Len(prog) = 0 THEN [ok |-> TRUE, end |-> i, gs |-> gs, ge |-> ge]
  ELSE
    LET n == Head(prog)
        rest == Tail(prog)
    IN CASE n.t = "lit" ->
              IF LitAt(n.s, text, i, ic)
              THEN Run(rest, text, i + Len(n.s), gs, ge, ic) ELSE NoMatch
         [] n.t = "set" ->
              IF i < Len(text) /\ CharIn(text[i + 1], n.s, ic)
              THEN Run(rest, text, i + 1, gs, ge, ic) ELSE NoMatch
         [] n.t = "rep" ->
              \* longest run first, then one character less at a time
              LET top == RunLength(n.s, text, i, n.hi, ic)
                  tries == [k \in 1..(top - n.lo + 1) |->
                              Run(rest, text, i + top + 1 - k, gs, ge, ic)] \o <<>>
              IN IF top < n.lo THEN NoMatch ELSE FirstOk(tries)
         [] n.t = "opt" ->
              LET with == Run(n.r \o rest, text, i, gs, ge, ic)
              IN IF with.ok THEN with ELSE Run(rest, text, i, gs, ge, ic)
         [] n.t = "alt" ->
              FirstOk([k \in 1..Len(n.a) |->
                         Run(n.a[k] \o rest, text, i, gs, ge, ic)] \o <<>>)
         [] n.t = "look" ->
              IF Run(n.r, text, i, gs, ge, ic).ok
              THEN Run(rest, text, i, gs, ge, ic) ELSE NoMatch
         [] n.t = "wb" ->
              IF WordBoundaryAt(text, i)
              THEN Run(rest, text, i, gs, ge, ic) ELSE NoMatch
         [] n.t = "eos" ->
              IF EndAt(text, i) THEN Run(rest, text, i, gs, ge, ic) ELSE NoMatch
         [] n.t = "open" -> Run(rest, text, i, i, ge, ic)
         [] n.t = "close" -> Run(rest, text, i, gs, i, ic)

\* pattern.match at position i: the match that starts exactly there
MatchAt(prog, text, i, ic) == Run(prog, text, i, 0, 0, ic)

\* re.search(pattern, text) and re.search(pattern, text, re.IGNORECASE): the
\* match at the leftmost position that has one
Search(prog, text, ic) ==
  FirstOk([k \in 1..(Len(text) + 1) |-> MatchAt(prog, text, k - 1, ic)] \o <<>>)

\* match.group(1)
Group1(text, m) == SubSeq(text, m.gs + 1, m.ge)

(***************************************************************************)
(* The patterns of extract_nid_fields.                                     *)
(***************************************************************************)
D == Set(Digit)

\* (?=\s+(?:fet|faot|ent|Date|Birth|DOB|NID|ID|No|\d)|\n|$)
NameBoundary ==
  Look(<<Alt(<< <<Plus(Space),
                  Alt(<< <<Lit(<<"f","e","t">>)>>, <<Lit(<<"f","a","o","t">>)>>, <<Lit(<<"e","n","t">>)>>,
                         <<Lit(<<"D","a","t","e">>)>>, <<Lit(<<"B","i","r","t","h">>)>>, <<Lit(<<"D","O","B">>)>>,
                         <<Lit(<<"N","I","D">>)>>, <<Lit(<<"I","D">>)>>, <<Lit(<<"N","o">>)>>,
                         <<D>> >>)>>,
                <<Lit(<<"\n">>)>>,
                <<EOS>> >>)>>)

\* Name\s*[:.]?
NameLabel == <<Lit(<<"N","a","m","e">>), Star(Space), Opt(<<Set({":", "."})>>)>>

name_patterns == <<
  \* Name\s*[:.]?\s*([A-Z][A-Z\s\.]+)(?=...)
  NameLabel \o <<Star(Space), Open, Set(UpperAZ),
                 Plus(UpperAZ \cup Space \cup {"."}), Close, NameBoundary>>,
  \* Name\s*[:.]?\s+([A-Za-z][A-Za-z\s\.]{2,30})(?=...)
  NameLabel \o <<Plus(Space), Open, Set(Letter),
                 Rep(Letter \cup Space \cup {"."}, 2, 30), Close, NameBoundary>>,
  \* \bM[dD]\.?\s+([A-Za-z]+\s+[A-Za-z]+(?:\s+[A-Za-z]+)?)\b
  <<WB, Lit(<<"M">>), Set({"d", "D"}), Opt(<<Lit(<<".">>)>>), Plus(Space), Open,
    Plus(Letter), Plus(Space), Plus(Letter),
    Opt(<<Plus(Space), Plus(Letter)>>), Close, WB>>,
  \* Name\s*[:.]?\s*([A-Z]+\s+[A-Z]+(?:\s+[A-Z]+)?)\b
  NameLabel \o <<Star(Space), Open,
                 Plus(UpperAZ), Plus(Space), Plus(UpperAZ),
                 Opt(<<Plus(Space), Plus(UpperAZ)>>), Close, WB>>
>>

name_blacklist == <<
  <<"N","A","T","I","O","N","A","L"," ","I","D"," ","C","A","R","D">>, <<"I","D"," ","C","A","R","D">>, <<"B","A","N","G","L","A","D","E","S","H">>, <<"G","O","V","E","R","N","M","E","N","T">>,
  <<"P","E","O","P","L","E","S">>, <<"R","E","P","U","B","L","I","C">>, <<"C","A","R","D">>, <<"N","A","T","I","O","N","A","L">>, <<"D","A","T","E"," ","O","F"," ","B","I","R","T","H">>,
  <<"G","O","V","E","R","M","E","N","T">>, <<"s","o","e","e","z","l","e","d","t">>, <<"o","f","f","t","h","e">>, <<"R","e","p","u","b","l","i","c">> >>

\* blacklisted.lower() for each phrase
lowered_blacklist == [b \in 1..Len(name_blacklist) |-> lower(name_blacklist[b]) \o <<>>] \o <<>>

\* the blacklist test without the two lower() calls
Blacklisted_CaseSensitive(name_candidate) ==
  \E b \in 1..Len(name_blacklist) : Contains(name_candidate, name_blacklist[b])

\* any(blacklisted.lower() in name_candidate.lower() for blacklisted in name_blacklist)
Blacklisted(name_candidate) ==
  LET candidate == lower(name_candidate) \o <<>>
  IN \E b \in 1..Len(name_blacklist) : Contains(candidate, lowered_blacklist[b])

\* (?:Date of Birth|DOB|Birth)[:.]?\s*
DobLabel ==
  <<Alt(<< <<Lit(<<"D","a","t","e"," ","o","f"," ","B","i","r","t","h">>)>>, <<Lit(<<"D","O","B">>)>>, <<Lit(<<"B","i","r","t","h">>)>> >>),
    Opt(<<Set({":", "."})>>), Star(Space)>>

\* (?:Jan|Feb|Mar|Apr|May|Jun|Jul|Aug|Sep|Oct|Nov|Dec)
MonthAbbr ==
  Alt(<< <<Lit(<<"J","a","n">>)>>, <<Lit(<<"F","e","b">>)>>, <<Lit(<<"M","a","r">>)>>, <<Lit(<<"A","p","r">>)>>,
         <<Lit(<<"M","a","y">>)>>, <<Lit(<<"J","u","n">>)>>, <<Lit(<<"J","u","l">>)>>, <<Lit(<<"A","u","g">>)>>,
         <<Lit(<<"S","e","p">>)>>, <<Lit(<<"O","c","t">>)>>, <<Lit(<<"N","o","v">>)>>, <<Lit(<<"D","e","c">>)>> >>)

\* (?:January|February|...|December)
MonthFull ==
  Alt(<< <<Lit(<<"J","a","n","u","a","r","y">>)>>, <<Lit(<<"F","e","b","r","u","a","r","y">>)>>, <<Lit(<<"M","a","r","c","h">>)>>,
         <<Lit(<<"A","p","r","i","l">>)>>, <<Lit(<<"M","a","y">>)>>, <<Lit(<<"J","u","n","e">>)>>, <<Lit(<<"J","u","l","y">>)>>,
         <<Lit(<<"A","u","g","u","s","t">>)>>, <<Lit(<<"S","e","p","t","e","m","b","e","r">>)>>, <<Lit(<<"O","c","t","o","b","e","r">>)>>,
         <<Lit(<<"N","o","v","e","m","b","e","r">>)>>, <<Lit(<<"D","e","c","e","m","b","e","r">>)>> >>)

\* [\s-]
SpaceOrDash == Set(Space \cup {"-"})
\* [\/\.-]
DateSep == Set({"/", ".", "-"})

\* \d{1,2}[\s-](?:Jan|...|Dec)[\s-]\d{2,4}
AbbrDate == <<Rep(Digit, 1, 2), SpaceOrDash, MonthAbbr, SpaceOrDash, Rep(Digit, 2, 4)>>

dob_patterns == <<
  DobLabel \o <<Open>> \o AbbrDate \o <<Close>>,
  \* label, then (\d{1,2}[\/\.-]\d{1,2}[\/\.-]\d{2,4})
  DobLabel \o <<Open, Rep(Digit, 1, 2), DateSep, Rep(Digit, 1, 2), DateSep,
                Rep(Digit, 2, 4), Close>>,
  \* (\d{1,2}\s+(?:January|...|December)\s+\d{4})
  <<Open, Rep(Digit, 1, 2), Plus(Space), MonthFull, Plus(Space), Rep(Digit, 4, 4), Close>>,
  <<Open>> \o AbbrDate \o <<Close>>
>>

\* [:.]?\s*(\d[\d\s-]{5,18}\d)
LabelledId ==
  <<Opt(<<Set({":", "."})>>), Star(Space), Open, D,
    Rep(Digit \cup Space \cup {"-"}, 5, 18), D, Close>>

id_patterns == <<
  \* ID\s*NO[:.]?\s*(\d[\d\s-]{5,18}\d)
  <<Lit(<<"I","D">>), Star(Space), Lit(<<"N","O">>)>> \o LabelledId,
  \* NID\s*No[:.]?\s*(\d[\d\s-]{5,18}\d)
  <<Lit(<<"N","I","D">>), Star(Space), Lit(<<"N","o">>)>> \o LabelledId,
  \* \b(\d{3}\s+\d{3}\s+\d{4})\b
  <<WB, Open, Rep(Digit, 3, 3), Plus(Space), Rep(Digit, 3, 3), Plus(Space),
    Rep(Digit, 4, 4), Close, WB>>,
  \* \b(\d{10}|\d{13}|\d{17})\b
  <<WB, Open, Alt(<< <<Rep(Digit, 10, 10)>>, <<Rep(Digit, 13, 13)>>,
                     <<Rep(Digit, 17, 17)>> >>), Close, WB>>,
  \* [<I]BGD(\d{9,})[<\d]
  <<Set({"<", "I"}), Lit(<<"B","G","D">>), Open, Rep(Digit, 9, -1), Close,
    Set(Digit \cup {"<"})>>,
  \* (?:ID|NID|Number|No)[:.]\s*(\d[\d\s-]+\d)
  <<Alt(<< <<Lit(<<"I","D">>)>>, <<Lit(<<"N","I","D">>)>>, <<Lit(<<"N","u","m","b","e","r">>)>>, <<Lit(<<"N","o">>)>> >>),
    Set({":", "."}), Star(Space), Open, D,
    Plus(Digit \cup Space \cup {"-"}), D, Close>>,
  \* \b(\d{3}[\s-]?\d{3}[\s-]?\d{4})\b
  <<WB, Open, Rep(Digit, 3, 3), Opt(<<SpaceOrDash>>), Rep(Digit, 3, 3),
    Opt(<<SpaceOrDash>>), Rep(Digit, 4, 4), Close, WB>>,
  \* \b(\d{10,})\b
  <<WB, Open, Rep(Digit, 10, -1), Close, WB>>
>>

\* re.sub(r'[\s-]', '', id_text)
RECURSIVE clean(_)
clean(id_text) ==
  IF Len(id_text) = 0 THEN <<>>
  ELSE IF Head(id_text) \in Space \cup {"-"} THEN clean(Tail(id_text))
  ELSE <<Head(id_text)>> \o clean(Tail(id_text))

(***************************************************************************)
(* extract_nid_fields (nid_extractor.py): the inputs of the model.         *)
(***************************************************************************)
\* the most entries the adapter returns in one call
MaxFrags == 2

\* what the caller passes as image: a path that does not exist, a path that
\* exists, a numpy array, anything else
Images == {"missing_path", "path", "ndarray", "other"}

\* recognized texts of the adapter's entries
FragmentTexts == {
  <<"M","d","."," ","A","b","d","u","l"," ","K","a","r","i","m">>,
  <<"N","a","t","i","o","n","a","l"," ","I","D"," ","C","a","r","d"," ","B","a","n","g","l","a","d","e","s","h">>,
  <<"N","a","m","e",":"," ","R","A","H","M","A","N">>,
  <<"N","a","m","e",":"," ","R","e","p","u","b","l","i","c">>,
  <<"N","a","m","e",":"," ","A","B","D","U","L","\t","K","A","R","I","M">>,
  <<"N","a","m","e",":"," ","J","O","H","N"," ","S","M","I","T","H"," ","D","O","B"," ","5"," ","J","a","n","u","a","r","y"," ","1","9","9","0">>,
  <<"B","i","r","t","h"," ","1","/","2","/","9","9"," ","I","D"," ","N","O",":"," ","1","2","3","4","5","6","7">>,
  <<"3","5"," ","J","a","n"," ","2","0","2","0"," ","N","I","D"," ","N","o"," ","1","-","2","-","3","-","4">>,
  <<"1","2","3"," ","4","5","6"," ","7","8","9","0">> }

\* one entry of the list readtext returns: [bbox, text] ("pair"), a list with
\* fewer than two elements ("short"), an object without len() ("nolen"), a
\* pair whose text element is not a str ("nonstr")
Entries ==
  {[shape |-> "pair", text |-> t] : t \in FragmentTexts}
    \cup {[shape |-> s, text |-> <<>>] : s \in {"short", "nolen", "nonstr"}}

RECURSIVE SeqsUpTo(_, _)
SeqsUpTo(S, n) ==
  IF n = 0 THEN {<<>>}
  ELSE LET shorter == SeqsUpTo(S, n - 1)
       IN shorter \cup {Append(s, e) : s \in {q \in shorter : Len(q) = n - 1}, e \in S}

\* the lists readtext can return
ResultLists == SeqsUpTo(Entries, MaxFrags)

\* the classes caught by "except Exception"
Exception == {"Exception", "TypeError"}

VARIABLES
  pc,           \* where the running call of extract_nid_fields is
  image,        \* its argument
  reader,       \* the module's global reader: "None" or the instance built
  read,         \* what readtext did: "none", "raised", "returned"
  results,      \* the list readtext returned
  idx,          \* the index of the running for loop
  text_blocks,  \* the list of recognized texts collected so far
  full_text,    \* " ".join(text_blocks)
  nid_data,     \* the result dict
  tried,        \* the patterns searched in this call, as <<cascade, index>>
  fault,        \* the failure this call met, "none" if none
  outcome       \* "none" while running, "returned", or "raised" if an
                \* exception left the function

evars == <<pc, image, reader, read, results, idx, text_blocks, full_text,
           nid_data, tried, fault, outcome>>

ResultKeys == {"Name", "Date of birth", "ID Number", "Full extracted text"}

\* nid_data as created on entry
empty_nid_data == [key \in ResultKeys |-> <<>>]

\* nid_data['error'] = msg
ErrorResult(nd, msg) == ("error" :> msg) @@ nd

\* nid_data[key] = value
Store(nd, key, value) == [nd EXCEPT ![key] = value]

\* a handler that names one exception class only
Caught_OnlyException(e) == e = "Exception"

\* "except Exception as e" of the function's outer try
Caught(e) == e \in Exception

ExtractInit ==
  /\ pc = "idle"
  /\ image = "none"
  /\ reader = "None"
  /\ read = "none"
  /\ results = <<>>
  /\ idx = 0
  /\ text_blocks = <<>>
  /\ full_text = <<>>
  /\ nid_data = empty_nid_data
  /\ tried = {}
  /\ fault = "none"
  /\ outcome = "none"

\* a return statement of the function
ReturnWith(nd, f) ==
  /\ nid_data' = nd
  /\ fault' = f
  /\ pc' = "done"
  /\ outcome' = "returned"

\* an exception of class e raised inside the outer try: the handler of lines
\* 218-221 if it catches e, otherwise the exception leaves the function
Raise(nd, e, f) ==
  IF Caught(e)
  THEN ReturnWith(ErrorResult(nd, "OCR processing failed"), f)
  ELSE /\ pc' = "done"
       /\ outcome' = "raised"
       /\ fault' = f
       /\ nid_data' = nd

\* the call: nid_data is created
Call ==
  /\ pc = "idle"
  /\ \E img \in Images : image' = img
  /\ nid_data' = empty_nid_data
  /\ pc' = "input"
  /\ UNCHANGED <<reader, read, results, idx, text_blocks, full_text, tried,
                 fault, outcome>>

\* the check of the argument's type
CheckInput ==
  /\ pc = "input"
  /\ IF image = "missing_path"
     THEN ReturnWith(ErrorResult(nid_data, "Image file not found"), "not_found")
     ELSE IF image \in {"path", "ndarray"}
     THEN /\ pc' = "get_reader"
          /\ UNCHANGED <<nid_data, fault, outcome>>
     ELSE ReturnWith(ErrorResult(nid_data, "Unsupported image format"), "unsupported")
  /\ UNCHANGED <<image, reader, read, results, idx, text_blocks, full_text, tried>>

\* get_reader(): the global reader is built on first use, with the GPU
\* setting found, and on any exception once more on the CPU
GetReader ==
  /\ pc = "get_reader"
  /\ IF reader # "None"
     THEN /\ pc' = "readtext"
          /\ UNCHANGED <<reader, nid_data, fault, outcome>>
     ELSE \E first_ok \in BOOLEAN, fallback_ok \in BOOLEAN :
            IF first_ok
            THEN /\ reader' = "reader"
                 /\ pc' = "readtext"
                 /\ UNCHANGED <<nid_data, fault, outcome>>
            ELSE IF fallback_ok
            THEN /\ reader' = "reader"
                 /\ pc' = "readtext"
                 /\ UNCHANGED <<nid_data, fault, outcome>>
            ELSE /\ Raise(nid_data, "Exception", "reader")
                 /\ UNCHANGED reader
  /\ UNCHANGED <<image, read, results, idx, text_blocks, full_text, tried>>

\* ocr_reader.readtext(...) in its own try, then the test of an empty list
ReadText ==
  /\ pc = "readtext"
  /\ \/ /\ read' = "raised"
        /\ ReturnWith(ErrorResult(nid_data, "OCR reading failed"), "readtext")
        /\ UNCHANGED <<results, idx>>
     \/ \E r \in ResultLists :
          /\ read' = "returned"
          /\ results' = r
          /\ IF Len(r) = 0
             THEN /\ ReturnWith(ErrorResult(nid_data, "No text detected in the image"),
                                "no_text")
                  /\ UNCHANGED idx
             ELSE /\ pc' = "blocks"
                  /\ idx' = 1
                  /\ UNCHANGED <<nid_data, fault, outcome>>
  /\ UNCHANGED <<image, reader, text_blocks, full_text, tried>>

\* one pass of "for result in results": text_blocks after it.  len(result)
\* raises for an object without len(), which the loop's except skips; a
\* result of fewer than two elements is passed over; result[1] is appended
\* whatever its type
process_block(result, blocks) ==
  IF result.shape = "nolen" THEN blocks
  ELSE IF result.shape = "short" THEN blocks
  ELSE Append(blocks, [isstr |-> result.shape = "pair", s |-> result.text])

ProcessBlock ==
  /\ pc = "blocks"
  /\ text_blocks' = process_block(results[idx], text_blocks)
  /\ IF idx < Len(results)
     THEN idx' = idx + 1 /\ pc' = "blocks"
     ELSE idx' = 0 /\ pc' = "join"
  /\ UNCHANGED <<image, reader, read, results, full_text, nid_data, tried,
                 fault, outcome>>

\* the text built item by item and stored as it grows, so that a TypeError at
\* an item that is not a str leaves the items before it in nid_data
join_blocks_Incremental(blocks, nd) ==
  LET bad == {b \in 1..Len(blocks) : ~blocks[b].isstr}
      upto == IF bad = {} THEN Len(blocks)
              ELSE (CHOOSE b \in bad : \A c \in bad : b <= c) - 1
      text == join([b \in 1..upto |-> blocks[b].s])
  IN [raised |-> bad # {}, text |-> text,
      nd |-> Store(nd, "Full extracted text", strip(text))]

\* " ".join(text_blocks) raises TypeError unless every item is a str;
\* otherwise nid_data['Full extracted text'] = full_text.strip()
join_blocks(blocks, nd) ==
  IF \E b \in 1..Len(blocks) : ~blocks[b].isstr
  THEN [raised |-> TRUE, text |-> <<>>, nd |-> nd]
  ELSE LET text == join([b \in 1..Len(blocks) |-> blocks[b].s])
       IN [raised |-> FALSE, text |-> text,
           nd |-> Store(nd, "Full extracted text", strip(text))]

Join ==
  /\ pc = "join"
  /\ LET j == join_blocks(text_blocks, nid_data)
     IN IF j.raised
        THEN /\ Raise(j.nd, "TypeError", "processing")
             /\ UNCHANGED <<full_text, idx>>
        ELSE /\ full_text' = j.text
             /\ nid_data' = j.nd
             /\ pc' = "name"
             /\ idx' = 1
             /\ UNCHANGED <<fault, outcome>>
  /\ UNCHANGED <<image, reader, read, results, text_blocks, tried>>

\* ' ' in s
HasSpace(s) == \E k \in 1..Len(s) : s[k] = " "

\* re.search(r'\d', s)
HasDigit(s) == \E k \in 1..Len(s) : s[k] \in Digit

\* the name loop ending on a potential single-word name as well
name_body_BreakOnPotential(name_candidate) ==
  IF Blacklisted(name_candidate) THEN [store |-> FALSE, stop |-> FALSE]
  ELSE IF HasSpace(name_candidate) /\ 4 <= Len(name_candidate)
          /\ Len(name_candidate) <= 40
  THEN [store |-> TRUE, stop |-> TRUE]
  ELSE IF Len(name_candidate) > 5 /\ ~HasDigit(name_candidate)
  THEN [store |-> TRUE, stop |-> TRUE]
  ELSE [store |-> FALSE, stop |-> FALSE]

\* the body of the name loop for a candidate: whether it is stored and
\* whether the loop ends
name_body(name_candidate) ==
  IF Blacklisted(name_candidate) THEN [store |-> FALSE, stop |-> FALSE]
  ELSE IF HasSpace(name_candidate) /\ 4 <= Len(name_candidate)
          /\ Len(name_candidate) <= 40
  THEN [store |-> TRUE, stop |-> TRUE]
  ELSE IF Len(name_candidate) > 5 /\ ~HasDigit(name_candidate)
  THEN [store |-> TRUE, stop |-> FALSE]
  ELSE [store |-> FALSE, stop |-> FALSE]

\* the date loop without its break
dob_body_NoBreak(dob_text) == [store |-> TRUE, stop |-> FALSE]

\* the body of the date loop for a match: stored, and the loop ends
dob_body(dob_text) == [store |-> TRUE, stop |-> TRUE]

\* the ID loop without its break
id_body_NoBreak(clean_id) == [store |-> TRUE, stop |-> FALSE]

\* the ID loop keeping the first provisional value instead of the last
id_body_KeepFirst(clean_id) ==
  [store |-> Len(clean_id) \in {10, 13, 17} \/ nid_data["ID Number"] = <<>>,
   stop |-> Len(clean_id) \in {10, 13, 17}]

\* the body of the ID loop for a cleaned match: always stored, and the loop
\* ends on a length of 10, 13 or 17
id_body(clean_id) == [store |-> TRUE, stop |-> Len(clean_id) \in {10, 13, 17}]

\* what a loop takes from the group of a match: the ID loop removes spaces and
\* dashes, the name and date loops strip
value(loop, s) == IF loop = "id" THEN clean(s) ELSE strip(s)

\* the body of the loop named
body(loop, v) ==
  CASE loop = "name" -> name_body(v)
    [] loop = "dob" -> dob_body(v)
    [] loop = "id" -> id_body(v)

\* one pass of a pattern loop: the pattern at idx is searched; on a match the
\* body decides; the loop goes on to the next pattern or ends (the match, the
\* value and the body's decision are each computed once)
LoopStep(here, patterns, ic, key, after) ==
  /\ pc = here
  /\ tried' = tried \cup {<<here, idx>>}
  /\ \E m \in {Search(patterns[idx], full_text, ic)} :
     \E v \in {value(here, Group1(full_text, m))} :
     \E b \in {IF m.ok THEN body(here, v) ELSE [store |-> FALSE, stop |-> FALSE]} :
        /\ nid_data' = IF b.store THEN Store(nid_data, key, v) ELSE nid_data
        /\ IF b.stop \/ idx = Len(patterns)
           THEN pc' = after /\ idx' = 1
           ELSE pc' = here /\ idx' = idx + 1
  /\ UNCHANGED <<image, reader, read, results, text_blocks, full_text, fault,
                 outcome>>

NameStep ==
  LoopStep("name", name_patterns, FALSE, "Name", "dob")

DobStep ==
  LoopStep("dob", dob_patterns, TRUE, "Date of birth", "id")

IdStep ==
  LoopStep("id", id_patterns, FALSE, "ID Number", "return")

\* return nid_data at the end of the try
Return ==
  /\ pc = "return"
  /\ ReturnWith(nid_data, "none")
  /\ UNCHANGED <<image, reader, read, results, idx, text_blocks, full_text, tried>>

\* the caller has the result; the next call starts from the module's state
NextCall ==
  /\ pc = "done"
  /\ outcome = "returned"
  /\ pc' = "idle"
  /\ image' = "none"
  /\ read' = "none"
  /\ results' = <<>>
  /\ idx' = 0
  /\ text_blocks' = <<>>
  /\ full_text' = <<>>
  /\ nid_data' = empty_nid_data
  /\ tried' = {}
  /\ fault' = "none"
  /\ outcome' = "none"
  /\ UNCHANGED reader

(***************************************************************************)
(* Properties of extract_nid_fields.                                       *)
(***************************************************************************)
NoError == "error" \notin DOMAIN nid_data

\* the call went through the three pattern loops and returned
Finished == pc = "done" /\ outcome = "returned" /\ NoError

\* the indices of the patterns of a loop searched in this call
Tried(loop) == {t[2] : t \in {u \in tried : u[1] = loop}}

\* what each pattern of a loop finds in full_text, as the loop would read it
\* (bound by a quantifier over a singleton where used, to be computed once)
Found(patterns, ic, loop) ==
  [k \in 1..Len(patterns) |->
     LET m == Search(patterns[k], full_text, ic)
     IN [ok |-> m.ok, v |-> IF m.ok THEN value(loop, Group1(full_text, m)) ELSE <<>>]] \o <<>>

\* s contains a blacklisted phrase, whatever the case of its letters
HasBlacklistedPhrase(s) ==
  LET folded == upper(s) \o <<>>
  IN \E b \in 1..Len(name_blacklist) : Contains(folded, upper(name_blacklist[b]) \o <<>>)

\* the shape of a multi-word name: a space and a length within [4,40]
MultiWord(s) == HasSpace(s) /\ Len(s) >= 4 /\ Len(s) <= 40

\* a candidate the name loop accepts tentatively
Potential(s) == ~MultiWord(s) /\ Len(s) > 5 /\ ~HasDigit(s)

\* the steps of a call in the order the code takes them
StepOrder == <<"idle", "input", "get_reader", "readtext", "blocks", "join", "name",
               "dob", "id", "return", "done">>
Position(p) == CHOOSE k \in 1..Len(StepOrder) : StepOrder[k] = p

\* a step of a running call moves on in the code or in the loop it is in
Advances ==
  pc \notin {"idle", "done"} =>
    \/ Position(pc') > Position(pc)
    \/ pc' = pc /\ idx' > idx

\* the loop index stays within the list the loop runs over
LoopBounded ==
  /\ pc = "blocks" => idx \in 1..Len(results)
  /\ pc = "name" => idx \in 1..Len(name_patterns)
  /\ pc = "dob" => idx \in 1..Len(dob_patterns)
  /\ pc = "id" => idx \in 1..Len(id_patterns)

C1_SafeReturn ==
  /\ outcome # "raised"
  /\ LoopBounded
  /\ pc = "done" =>
       /\ outcome = "returned"
       /\ ResultKeys \subseteq DOMAIN nid_data
       /\ fault # "none" => "error" \in DOMAIN nid_data

\* C1: extract_nid_fields terminates and no exception leaves it: each step of
\* a call moves forward through finitely many positions, and a call that has
\* ended has returned a dict with the four result keys in which every failure
\* it met (a missing path, an unsupported type, the reader not built,
\* readtext raising, an empty result list, a fragment list that cannot be
\* joined) is in the error key.
C1_TerminatesWithoutRaising == []C1_SafeReturn /\ [][Advances]_evars

C1_Witness ==
  /\ pc = "done"
  /\ outcome = "returned"
  /\ fault = "processing"
  /\ "error" \in DOMAIN nid_data
  /\ \E i \in 1..Len(results) : results[i].shape = "nolen"
  /\ \E i \in 1..Len(results) : results[i].shape = "nonstr"

\* C2: whenever the error key is set the four fields are still empty strings,
\* on every error exit, the catch-all handler included; and an empty result
\* list gives the error "No text detected in the image".
C2_ErrorMeansEmptyFields ==
  /\ "error" \in DOMAIN nid_data => \A key \in ResultKeys : nid_data[key] = <<>>
  /\ (pc = "done" /\ read = "returned" /\ results = <<>>) =>
       /\ "error" \in DOMAIN nid_data
       /\ nid_data["error"] = "No text detected in the image"
       /\ \A key \in ResultKeys : nid_data[key] = <<>>

\* the catch-all handler ran after text had been collected from a fragment
C2_Witness ==
  /\ pc = "done"
  /\ "error" \in DOMAIN nid_data
  /\ nid_data["error"] = "OCR processing failed"
  /\ \E b \in 1..Len(text_blocks) : text_blocks[b].isstr /\ text_blocks[b].s # <<>>

\* C3: the Name of the result never contains a blacklisted phrase, in any
\* case of its letters, whatever the patterns matched.
C3_NoBlacklistedName == ~HasBlacklistedPhrase(nid_data["Name"])

\* a pattern's candidate was blacklisted and another pattern's was returned
C3_Witness ==
  /\ Finished
  /\ nid_data["Name"] # <<>>
  /\ \E f \in {Found(name_patterns, FALSE, "name")} :
        \E k \in Tried("name") : f[k].ok /\ HasBlacklistedPhrase(f[k].v)

\* C4: if some ID pattern's match cleans to 10, 13 or 17 characters, the ID
\* Number returned is the cleaned match of the first such pattern, the loop
\* has searched the patterns up to that one and no further.
C4_FirstCanonicalId ==
  Finished =>
    \A f \in {Found(id_patterns, FALSE, "id")} :
    LET canonical == {k \in 1..Len(id_patterns) :
                        f[k].ok /\ Len(f[k].v) \in {10, 13, 17}}
    IN \A k \in canonical :
         (\A j \in canonical : k <= j) =>
           /\ nid_data["ID Number"] = f[k].v
           /\ Len(nid_data["ID Number"]) \in {10, 13, 17}
           /\ Tried("id") = 1..k

\* a provisional value of another length was found first and replaced
C4_Witness ==
  /\ Finished
  /\ \E f \in {Found(id_patterns, FALSE, "id")} :
        /\ f[1].ok /\ Len(f[1].v) \notin {10, 13, 17}
        /\ f[3].ok /\ Len(f[3].v) = 10
        /\ nid_data["ID Number"] = f[3].v

\* C5: the first pattern whose candidate is not blacklisted and has the
\* multi-word shape gives the Name, also after earlier patterns gave
\* potential single-word names, and no later pattern is searched; without such
\* a pattern the Name is the last potential name accepted.
C5_MultiWordOverPotential ==
  Finished =>
    \A f \in {Found(name_patterns, FALSE, "name")} :
    LET multi == {k \in 1..Len(name_patterns) :
                    f[k].ok /\ ~HasBlacklistedPhrase(f[k].v) /\ MultiWord(f[k].v)}
        potential == {k \in 1..Len(name_patterns) :
                        f[k].ok /\ ~HasBlacklistedPhrase(f[k].v) /\ Potential(f[k].v)}
    IN /\ \A k \in multi :
            (\A j \in multi : k <= j) =>
              nid_data["Name"] = f[k].v /\ Tried("name") = 1..k
       /\ multi = {} =>
            /\ Tried("name") = 1..Len(name_patterns)
            /\ \A k \in potential :
                 (\A j \in potential : j <= k) =>
                   nid_data["Name"] = f[k].v /\ nid_data["Name"] # <<>>

\* a potential single-word name was accepted and a later pattern replaced it
C5_Witness ==
  /\ Finished
  /\ \E f \in {Found(name_patterns, FALSE, "name")} :
        /\ f[1].ok /\ ~HasBlacklistedPhrase(f[1].v) /\ Potential(f[1].v)
        /\ ~HasSpace(f[1].v)
        /\ f[3].ok /\ MultiWord(f[3].v)
        /\ nid_data["Name"] = f[3].v
        /\ Tried("name") = {1, 2, 3}

\* C6: the Date of birth returned is the stripped capture of the first of the
\* four date patterns that matches; it is then not empty, later patterns are
\* not searched, and it is empty when no pattern matches.
C6_FirstDobPattern ==
  Finished =>
    \A f \in {Found(dob_patterns, TRUE, "dob")} :
    LET matching == {k \in 1..Len(dob_patterns) : f[k].ok}
    IN /\ \A k \in matching :
            (\A j \in matching : k <= j) =>
              /\ nid_data["Date of birth"] = f[k].v
              /\ nid_data["Date of birth"] # <<>>
              /\ Tried("dob") = 1..k
       /\ matching = {} => nid_data["Date of birth"] = <<>>

\* two patterns match different dates and the earlier pattern's is returned;
\* the later one's day is not a day of any month
C6_Witness ==
  /\ Finished
  /\ \E f \in {Found(dob_patterns, TRUE, "dob")} :
        /\ f[2].ok /\ f[4].ok
        /\ f[4].v = <<"3","5"," ","J","a","n"," ","2","0","2","0">>
        /\ nid_data["Date of birth"] = f[2].v
        /\ f[2].v # f[4].v

\* the texts of the well-formed entries of a result list, in order
WellFormedTexts(rs) ==
  LET wf == SelectSeq(rs, LAMBDA e : e.shape = "pair")
  IN [k \in 1..Len(wf) |-> wf[k].text]

\* C7: for a non-empty result list with malformed entries the call returns
\* without error and Full extracted text is the join of the well-formed
\* entries' texts.
C7_MalformedSkipped ==
  (/\ pc = "done"
   /\ read = "returned"
   /\ \E i \in 1..Len(results) : results[i].shape # "pair") =>
    /\ NoError
    /\ nid_data["Full extracted text"] = join(WellFormedTexts(results))

\* C8: the text "Md. Abdul Karim National ID Card Bangladesh" gives the Name
\* "Abdul Karim".
C8_HonorificScenario ==
  (pc = "done" /\ full_text = <<"M","d","."," ","A","b","d","u","l"," ","K","a","r","i","m"," ","N","a","t","i","o","n","a","l"," ","I","D"," ","C","a","r","d"," ","B","a","n","g","l","a","d","e","s","h">>) =>
    nid_data["Name"] = <<"A","b","d","u","l"," ","K","a","r","i","m">>


\* C12: when no ID pattern's match cleans to 10, 13 or 17 characters, all eight
\* patterns are searched and the ID Number is the cleaned match of the last
\* pattern that matches; the ID Number is empty only if no pattern matches.
C12_LastProvisionalId ==
  Finished =>
    \A f \in {Found(id_patterns, FALSE, "id")} :
    LET matching == {k \in 1..Len(id_patterns) : f[k].ok}
        canonical == {k \in matching : Len(f[k].v) \in {10, 13, 17}}
    IN /\ (nid_data["ID Number"] = <<>>) <=> (matching = {})
       /\ canonical = {} =>
            /\ Tried("id") = 1..Len(id_patterns)
            /\ \A k \in matching :
                 (\A j \in matching : j <= k) => nid_data["ID Number"] = f[k].v

\* two patterns gave different provisional values and the later one is returned
C12_Witness ==
  /\ Finished
  /\ \E f \in {Found(id_patterns, FALSE, "id")} :
     LET matching == {k \in 1..Len(id_patterns) : f[k].ok}
     IN /\ \A k \in matching : Len(f[k].v) \notin {10, 13, 17}
        /\ \E j, k \in matching :
             /\ j < k
             /\ f[j].v # f[k].v
             /\ \A i \in matching : i <= k
             /\ nid_data["ID Number"] = f[k].v

\* s has a whitespace character inside
HasWhitespace(s) == \E k \in 1..Len(s) : s[k] \in Space

\* C13: every non-empty Name returned has one of the two accepted shapes: a
\* space and a length within [4,40], or a single token, without whitespace
\* inside, longer than 5 characters and without a digit.
C13_AcceptedShapes ==
  Finished =>
    \/ nid_data["Name"] = <<>>
    \/ MultiWord(nid_data["Name"])
    \/ /\ ~HasWhitespace(nid_data["Name"])
       /\ Len(nid_data["Name"]) > 5
       /\ ~HasDigit(nid_data["Name"])
(***************************************************************************)
(* process_image (app.py): the result of the extraction, the comparison    *)
(* values of the form, and the similarity report.                          *)
(***************************************************************************)
\* the dicts extract_nid_fields can hand to the handler
ExtractionResults ==
  {[key \in ResultKeys |->
      IF key = "Name" THEN n ELSE IF key = "Date of birth" THEN d ELSE <<>>] :
     n \in {<<>>, <<"J","O","H","N"," ","S","M","I","T","H">>, <<"A","b","d","u","l"," ","K","a","r","i","m">>},
     d \in {<<>>, <<"0","5","-","J","a","n","-","1","9","9","0">>, <<"3","5"," ","J","a","n"," ","2","0","2","0">>}}
    \cup {ErrorResult(empty_nid_data, "No text detected in the image")}

\* the form fields a request can carry; a field may be missing
FormNames == {<<>>, <<" "," ">>, <<"J","O","H","N"," ","S","M","I","T","H">>, <<" ","J","o","h","n"," ","S","m","y","t","h"," ">>, <<"R","A","H","M","A","N">>}
FormDobs == {<<>>, <<"0","5","-","J","a","n","-","1","9","9","0">>, <<" ","1","/","2","/","9","9">>}
Forms ==
  {<<>>}
    \cup {("Name" :> n) : n \in FormNames}
    \cup {("Date of Birth" :> d) : d \in FormDobs}
    \cup {("Name" :> n) @@ ("Date of Birth" :> d) : n \in FormNames, d \in FormDobs}

VARIABLES
  app_pc,         \* where the handler is, from the call of extract_nid_fields on
  result,         \* the dict of the extraction, later with the similarity key
  form,           \* request.form
  provided_name,  \* the Name field of the form, stripped
  provided_dob,   \* the Date of Birth field of the form, stripped
  similarity      \* the similarity report

svars == <<app_pc, result, form, provided_name, provided_dob, similarity>>

\* d.get(key, "")
Get(d, key) == IF key \in DOMAIN d THEN d[key] ELSE <<>>

\* SequenceMatcher.find_longest_match(alo, ahi, blo, bhi) without junk: the
\* longest block a[i:i+k] == b[j:j+k], the one starting earliest in a and
\* then earliest in b; positions count from 0
find_longest_match(a, b, alo, ahi, blo, bhi) ==
  LET blocks == {m \in (alo..(ahi - 1)) \X (blo..(bhi - 1)) \X (1..(ahi - alo)) :
                   /\ m[1] + m[3] <= ahi
                   /\ m[2] + m[3] <= bhi
                   /\ \A d \in 1..m[3] : a[m[1] + d] = b[m[2] + d]}
  IN IF blocks = {} THEN <<alo, blo, 0>>
     ELSE CHOOSE m \in blocks :
            \A o \in blocks :
              \/ m[3] > o[3]
              \/ m[3] = o[3] /\ m[1] < o[1]
              \/ m[3] = o[3] /\ m[1] = o[1] /\ m[2] <= o[2]

\* the total size of SequenceMatcher.get_matching_blocks(): the longest
\* block, then the same to its left and to its right
RECURSIVE matches(_, _, _, _, _, _)
matches(a, b, alo, ahi, blo, bhi) ==
  IF alo >= ahi \/ blo >= bhi THEN 0
  ELSE LET m == find_longest_match(a, b, alo, ahi, blo, bhi)
       IN IF m[3] = 0 THEN 0
          ELSE m[3] + matches(a, b, alo, m[1], blo, m[2])
                    + matches(a, b, m[1] + m[3], ahi, m[2] + m[3], bhi)

\* round(2.0 * m / t, 2) in hundredths, a half going to the even hundredth
round2(m, t) ==
  LET whole == (200 * m) \div t
      rest == (200 * m) % t
  IN IF 2 * rest < t THEN whole
     ELSE IF 2 * rest > t THEN whole + 1
     ELSE IF whole % 2 = 0 THEN whole ELSE whole + 1

\* round(difflib.SequenceMatcher(None, a, b).ratio(), 2) in hundredths
ratio(a, b) ==
  IF Len(a) + Len(b) = 0 THEN 100
  ELSE round2(matches(a, b, 0, Len(a), 0, Len(b)), Len(a) + Len(b))

\* the values of a similarity slot: a number (in hundredths), None, or a string
Number(h) == [kind |-> "number", hundredths |-> h]
None == [kind |-> "None", hundredths |-> 0]
Sentinel(s) == [kind |-> s, hundredths |-> 0]

\* a slot that gets the sentinel whenever there is nothing to compare
similarity_slot_ElseSentinel(provided, extracted, sentinel) ==
  IF provided # <<>> /\ extracted # <<>>
  THEN Number(ratio(upper(provided) \o <<>>, upper(extracted) \o <<>>))
  ELSE Sentinel(sentinel)

\* one slot of the report: the ratio if both values are there, the sentinel
\* if only the provided one is, otherwise the None it was initialized with
similarity_slot(provided, extracted, sentinel) ==
  IF provided # <<>> /\ extracted # <<>>
  THEN Number(ratio(upper(provided) \o <<>>, upper(extracted) \o <<>>))
  ELSE IF provided # <<>> THEN Sentinel(sentinel)
  ELSE None

\* the similarity dict the handler builds
compute_similarity(name, dob, res) ==
  IF name = <<>> /\ dob = <<>>
  THEN [status |-> "no_comparison_data_provided"]
  ELSE [status |-> "partial_comparison",
        name_similarity |->
          similarity_slot(name, strip(Get(res, "Name")), "no_extracted_name_available"),
        dob_similarity |->
          similarity_slot(dob, strip(Get(res, "Date of birth")),
                          "no_extracted_dob_available")]

SimInit ==
  /\ app_pc = "idle"
  /\ result = empty_nid_data
  /\ form = <<>>
  /\ provided_name = <<>>
  /\ provided_dob = <<>>
  /\ similarity = [status |-> "unset"]

\* result = extract_nid_fields(image)
Extract ==
  /\ app_pc = "idle"
  /\ \E r \in ExtractionResults : result' = r
  /\ app_pc' = "extracted"
  /\ UNCHANGED <<form, provided_name, provided_dob, similarity>>

\* the two fields of the form, stripped
ReadForm ==
  /\ app_pc = "extracted"
  /\ \E f \in Forms :
       /\ form' = f
       /\ provided_name' = strip(Get(f, "Name"))
       /\ provided_dob' = strip(Get(f, "Date of Birth"))
  /\ app_pc' = "form"
  /\ UNCHANGED <<result, similarity>>

\* the similarity dict, stored in the result
Similarity ==
  /\ app_pc = "form"
  /\ similarity' = compute_similarity(provided_name, provided_dob, result)
  /\ result' = ("similarity" :> similarity') @@ result
  /\ app_pc' = "scored"
  /\ UNCHANGED <<form, provided_name, provided_dob>>

\* return jsonify(result)
Respond ==
  /\ app_pc = "scored"
  /\ app_pc' = "idle"
  /\ result' = empty_nid_data
  /\ form' = <<>>
  /\ provided_name' = <<>>
  /\ provided_dob' = <<>>
  /\ similarity' = [status |-> "unset"]

(***************************************************************************)
(* Properties of the similarity report.                                    *)
(***************************************************************************)
\* a slot as the report describes it, for the compared values
SlotAsDescribed(slot, expected, extracted, sentinel) ==
  /\ (expected # <<>> /\ extracted # <<>>) =>
       slot.kind = "number" /\ slot.hundredths \in 0..100
  /\ (expected # <<>> /\ extracted = <<>>) => slot.kind = sentinel
  /\ expected = <<>> => slot = None

\* C9: with both expected values empty after trimming the report is the
\* status no_comparison_data_provided and nothing else; otherwise its status
\* is partial_comparison and each slot is a ratio in [0,1] in hundredths if
\* expected and extracted value are both there, the sentinel
\* no_extracted_<field>_available if only the expected one is, and None if the
\* expected value is missing, whatever was extracted.
C9_SimilarityReport ==
  app_pc = "scored" =>
    LET expected_name == strip(Get(form, "Name"))
        expected_dob == strip(Get(form, "Date of Birth"))
        report == result["similarity"]
    IN IF expected_name = <<>> /\ expected_dob = <<>>
       THEN DOMAIN report = {"status"} /\ report.status = "no_comparison_data_provided"
       ELSE /\ DOMAIN report = {"status", "name_similarity", "dob_similarity"}
            /\ report.status = "partial_comparison"
            /\ SlotAsDescribed(report.name_similarity, expected_name,
                               strip(result["Name"]), "no_extracted_name_available")
            /\ SlotAsDescribed(report.dob_similarity, expected_dob,
                               strip(result["Date of birth"]),
                               "no_extracted_dob_available")

\* a name compared at 0.9 while the date slot stays None beside an extracted date
C9_Witness ==
  /\ app_pc = "scored"
  /\ provided_name = <<"J","o","h","n"," ","S","m","y","t","h">>
  /\ result["Name"] = <<"J","O","H","N"," ","S","M","I","T","H">>
  /\ result["similarity"].name_similarity = Number(90)
  /\ provided_dob = <<>>
  /\ result["Date of birth"] # <<>>
  /\ result["similarity"].dob_similarity = None

(***************************************************************************)
(* authenticate and rate_limit (utils.py), as the decorators of            *)
(* /process_image run them on the threads of the server.                   *)
(***************************************************************************)
\* the configured values (config.py reads them from the environment; the
\* model takes a ceiling of 2 requests in a window of 2 seconds)
RATE_LIMIT == 2
RATE_LIMIT_WINDOW == 2

\* the threads handling requests, the requests of a run, the last second
NThreads == 2
MaxRequests == 3
MaxTime == 2

AUTH_TOKEN == "secret"
\* the X-API-Token header of a request: missing, wrong or right
Tokens == {"none", "wrong", AUTH_TOKEN}
RemoteAddrs == {"10.0.0.1", "10.0.0.2"}
\* what rate_limit can take as client identifier
ClientIds == (Tokens \ {"none"}) \cup RemoteAddrs

Threads == 1..NThreads
Times == 0..MaxTime
\* the list objects; 0 is no list
Refs == 1..(Cardinality(ClientIds) + NThreads + 1)

VARIABLES
  now,              \* time.time(), in seconds
  request_history,  \* the module's dict: client identifier -> list object
  lists,            \* the content of each list object
  rq,               \* per thread: the request it handles and its locals
  admitted,         \* how many requests rate_limit passed on, per client and time
  passed,           \* the same per remote address of the request
  served            \* the requests received so far

rvars == <<now, request_history, lists, rq, admitted, passed, served>>

IdleThread ==
  [pc |-> "idle", token |-> "none", remote_addr |-> "none", client_id |-> "none",
   current_time |-> 0, client_history |-> 0, status |-> 0]

RateInit ==
  /\ now = 0
  /\ request_history = <<>>
  /\ lists = [r \in Refs |-> <<>>]
  /\ rq = [t \in Threads |-> IdleThread]
  /\ admitted = [c \in ClientIds |-> [t \in Times |-> 0]]
  /\ passed = [a \in RemoteAddrs |-> [t \in Times |-> 0]]
  /\ served = 0

\* the list objects still referenced by the dict or by a thread
Live(history, threads) ==
  ({history[c] : c \in DOMAIN history}
     \cup {threads[t].client_history : t \in Threads}) \ {0}

\* the heap with the list objects nobody references any more emptied
Collect(heap, history, threads) ==
  [r \in Refs |-> IF r \in Live(history, threads) THEN heap[r] ELSE <<>>]

\* a response ends the request: the thread is free again; the record keeps the
\* status, the remote address and the time of the request answered
Response(t, code) ==
  [IdleThread EXCEPT !.status = code,
                     !.remote_addr = rq[t].remote_addr,
                     !.current_time = rq[t].current_time]

\* a request arrives on a free thread
Receive(t) ==
  /\ rq[t].pc = "idle"
  /\ served < MaxRequests
  /\ served' = served + 1
  /\ \E tok \in Tokens, addr \in RemoteAddrs :
       rq' = [rq EXCEPT ![t] = [IdleThread EXCEPT !.pc = "authenticate",
                                                  !.token = tok,
                                                  !.remote_addr = addr]]
  /\ UNCHANGED <<now, request_history, lists, admitted, passed>>

\* authenticate: 401 without the token or with another one
Authenticate(t) ==
  /\ rq[t].pc = "authenticate"
  /\ rq' = [rq EXCEPT ![t] =
              IF rq[t].token = "none" \/ rq[t].token # AUTH_TOKEN
              THEN Response(t, 401)
              ELSE [@ EXCEPT !.pc = "rate_limit"]]
  /\ UNCHANGED <<now, request_history, lists, admitted, passed, served>>

\* request.headers.get(TOKEN_HEADER_NAME, request.remote_addr)
client_id_of(token, remote_addr) == IF token # "none" THEN token ELSE remote_addr

\* rate_limit: client_id and current_time
ReadClock(t) ==
  /\ rq[t].pc = "rate_limit"
  /\ rq' = [rq EXCEPT ![t] =
              [@ EXCEPT !.pc = "prune",
                        !.client_id = client_id_of(rq[t].token, rq[t].remote_addr),
                        !.current_time = now]]
  /\ UNCHANGED <<now, request_history, lists, admitted, passed, served>>

\* [t for t in request_history.get(key, []) if current_time - t < RATE_LIMIT_WINDOW]
recent(times, current_time) ==
  SelectSeq(times, LAMBDA s : current_time - s < RATE_LIMIT_WINDOW)

\* rate_limit: every key of the dict gets a new list of its recent entries
\* (the loop over the keys is taken as one step)
Prune(t) ==
  /\ rq[t].pc = "prune"
  /\ LET keys == DOMAIN request_history
         free == Refs \ Live(request_history, rq)
         new == CHOOSE f \in [keys -> free] : \A c, d \in keys : c # d => f[c] # f[d]
         heap == [r \in Refs |->
                    IF \E c \in keys : new[c] = r
                    THEN LET c == CHOOSE c \in keys : new[c] = r
                         IN recent(lists[request_history[c]], rq[t].current_time)
                    ELSE lists[r]]
         threads == [rq EXCEPT ![t] = [@ EXCEPT !.pc = "get"]]
     IN /\ request_history' = [c \in keys |-> new[c]]
        /\ rq' = threads
        /\ lists' = Collect(heap, request_history', threads)
  /\ UNCHANGED <<now, admitted, passed, served>>

\* client_history = request_history.get(client_id, []): the dict's list
\* object, or a new empty list
GetHistory(t) ==
  /\ rq[t].pc = "get"
  /\ LET ref == IF rq[t].client_id \in DOMAIN request_history
                THEN request_history[rq[t].client_id]
                ELSE CHOOSE r \in Refs \ Live(request_history, rq) :
                       \A s \in Refs \ Live(request_history, rq) : r <= s
     IN rq' = [rq EXCEPT ![t] = [@ EXCEPT !.pc = "check", !.client_history = ref]]
  /\ UNCHANGED <<now, request_history, lists, admitted, passed, served>>

\* len(client_history) >= RATE_LIMIT
over_limit(history) == Len(history) >= RATE_LIMIT

\* the check of the ceiling: 429, or on to the update
Check(t) ==
  /\ rq[t].pc = "check"
  /\ LET threads == [rq EXCEPT ![t] =
                       IF over_limit(lists[rq[t].client_history])
                       THEN Response(t, 429)
                       ELSE [@ EXCEPT !.pc = "append"]]
     IN /\ rq' = threads
        /\ lists' = Collect(lists, request_history, threads)
  /\ UNCHANGED <<now, request_history, admitted, passed, served>>

\* client_history.append(current_time)
AppendTime(t) ==
  /\ rq[t].pc = "append"
  /\ lists' = [lists EXCEPT ![rq[t].client_history] = Append(@, rq[t].current_time)]
  /\ rq' = [rq EXCEPT ![t] = [@ EXCEPT !.pc = "store"]]
  /\ UNCHANGED <<now, request_history, admitted, passed, served>>

\* request_history[client_id] = client_history
StoreHistory(t) ==
  /\ rq[t].pc = "store"
  /\ request_history' =
       (rq[t].client_id :> rq[t].client_history) @@ request_history
  /\ rq' = [rq EXCEPT ![t] = [@ EXCEPT !.pc = "handler"]]
  /\ lists' = Collect(lists, request_history', rq')
  /\ UNCHANGED <<now, admitted, passed, served>>

\* return f(*args, **kwargs): the request is passed on to the handler
Handler(t) ==
  /\ rq[t].pc = "handler"
  /\ admitted' = [admitted EXCEPT ![rq[t].client_id][rq[t].current_time] = @ + 1]
  /\ passed' = [passed EXCEPT ![rq[t].remote_addr][rq[t].current_time] = @ + 1]
  /\ rq' = [rq EXCEPT ![t] = Response(t, 200)]
  /\ lists' = Collect(lists, request_history, rq')
  /\ UNCHANGED <<now, request_history, served>>

\* a second passes
Tick ==
  /\ now < MaxTime
  /\ now' = now + 1
  /\ UNCHANGED <<request_history, lists, rq, admitted, passed, served>>

(***************************************************************************)
(* Properties of the rate limiter.                                         *)
(***************************************************************************)
RECURSIVE AdmittedFrom(_, _, _)
\* the requests of client c admitted in the n seconds from w on
AdmittedFrom(c, w, n) ==
  IF n = 0 \/ w > MaxTime THEN 0
  ELSE admitted[c][w] + AdmittedFrom(c, w + 1, n - 1)

\* C10: in no window of RATE_LIMIT_WINDOW seconds more than RATE_LIMIT
\* requests of one client are passed on to the handler.
C10_WindowCeiling ==
  \A c \in ClientIds, w \in Times : AdmittedFrom(c, w, RATE_LIMIT_WINDOW) <= RATE_LIMIT

RECURSIVE PassedFrom(_, _, _)
\* the requests from remote address a passed on with a time in the n seconds
\* from w on
PassedFrom(a, w, n) ==
  IF n = 0 \/ w > MaxTime THEN 0
  ELSE (IF w >= 0 THEN passed[a][w] ELSE 0) + PassedFrom(a, w + 1, n - 1)

\* the requests from remote address a that rate_limit let through with a time
\* within the window ending at time s: those passed on to the handler and
\* those past the test of the ceiling on another thread
OwnAdmitted(a, s) ==
  PassedFrom(a, s - RATE_LIMIT_WINDOW + 1, RATE_LIMIT_WINDOW)
    + Cardinality({t \in Threads :
                     /\ rq[t].pc \in {"append", "store", "handler"}
                     /\ rq[t].remote_addr = a
                     /\ s - rq[t].current_time < RATE_LIMIT_WINDOW})

\* C11: the ceiling is per client: a request answered 429 comes from a remote
\* address that itself has RATE_LIMIT requests let through within the window;
\* the requests of another address never cause the rejection.
C11_PerClientCeiling ==
  \A t \in Threads :
    rq[t].status = 429 =>
      OwnAdmitted(rq[t].remote_addr, rq[t].current_time) >= RATE_LIMIT

(***************************************************************************)
(* get_reader (nid_extractor.py) called by extract_nid_fields on several   *)
(* threads of the server: the global reader and the instances built.       *)
(***************************************************************************)
\* the calls of extract_nid_fields of a run
MaxCalls == 3

\* the Reader objects that can be built: one per call at most; 0 is None
Instances == 1..MaxCalls

VARIABLES
  global_reader,  \* the module's global reader: 0 for None, or an instance
  built,          \* how many Reader objects have been constructed
  used,           \* the instances readtext was called on
  started,        \* the calls made so far
  call            \* per thread: where its call is, the instance it built and
                  \* its local ocr_reader

gvars == <<global_reader, built, used, started, call>>

IdleCall == [pc |-> "idle", made |-> 0, ocr_reader |-> 0]

ReaderInit ==
  /\ global_reader = 0
  /\ built = 0
  /\ used = {}
  /\ started = 0
  /\ call = [t \in Threads |-> IdleCall]

\* extract_nid_fields reaches ocr_reader = get_reader()
EnterGetReader(t) ==
  /\ call[t].pc = "idle"
  /\ started < MaxCalls
  /\ started' = started + 1
  /\ call' = [call EXCEPT ![t] = [IdleCall EXCEPT !.pc = "test"]]
  /\ UNCHANGED <<global_reader, built, used>>

\* if reader is None
TestReader(t) ==
  /\ call[t].pc = "test"
  /\ call' = [call EXCEPT ![t] =
                [@ EXCEPT !.pc = IF global_reader = 0 THEN "construct" ELSE "return"]]
  /\ UNCHANGED <<global_reader, built, used, started>>

\* easyocr.Reader(...): with the GPU setting found, and on an exception once
\* more on the CPU; when that fails too the exception leaves get_reader and
\* the call of extract_nid_fields ends with its error
ConstructReader(t) ==
  /\ call[t].pc = "construct"
  /\ \E first_ok \in BOOLEAN, fallback_ok \in BOOLEAN :
       IF first_ok \/ fallback_ok
       THEN /\ built' = built + 1
            /\ call' = [call EXCEPT ![t] = [@ EXCEPT !.pc = "assign", !.made = built + 1]]
       ELSE /\ call' = [call EXCEPT ![t] = IdleCall]
            /\ UNCHANGED built
  /\ UNCHANGED <<global_reader, used, started>>

\* reader = <the object constructed>
AssignReader(t) ==
  /\ call[t].pc = "assign"
  /\ global_reader' = call[t].made
  /\ call' = [call EXCEPT ![t] = [@ EXCEPT !.pc = "return"]]
  /\ UNCHANGED <<built, used, started>>

\* return reader: the caller's ocr_reader is the global as it is now
ReturnReader(t) ==
  /\ call[t].pc = "return"
  /\ call' = [call EXCEPT ![t] = [@ EXCEPT !.pc = "readtext",
                                           !.ocr_reader = global_reader]]
  /\ UNCHANGED <<global_reader, built, used, started>>

\* ocr_reader.readtext(...); the rest of the call does not touch the reader
UseReader(t) ==
  /\ call[t].pc = "readtext"
  /\ used' = used \cup {call[t].ocr_reader}
  /\ call' = [call EXCEPT ![t] = IdleCall]
  /\ UNCHANGED <<global_reader, built, started>>

(***************************************************************************)
(* Properties of get_reader.                                               *)
(***************************************************************************)
\* C14: the reader is constructed at most once and every call uses the same
\* instance, whatever the interleaving of the calls.
C14_SingleReader ==
  /\ built <= 1
  /\ Cardinality(used) <= 1

(***************************************************************************)
(* The temporary file of process_image (app.py) and cleanup_file           *)
(* (utils.py): requests handled one after the other.                       *)
(***************************************************************************)
\* the uploads of a run
MaxUploads == 3

Uploads == 1..MaxUploads

VARIABLES
  file_pc,     \* where the handler is
  upload,      \* the number of the request being handled, 0 before the first
  cache_dir,   \* whether CACHE_DIR exists
  temp_files,  \* the requests whose temporary file is in CACHE_DIR
  created,     \* the requests whose temporary file was created
  cleaned,     \* the requests for whose file cleanup_file was called
  response     \* the status and the exit of the last response

fvars == <<file_pc, upload, cache_dir, temp_files, created, cleaned, response>>

FileInit ==
  /\ file_pc = "idle"
  /\ upload = 0
  /\ cache_dir = FALSE
  /\ temp_files = {}
  /\ created = {}
  /\ cleaned = {}
  /\ response = [status |-> 0, exit |-> "none"]

\* return jsonify(...), status
Reply(status, exit) ==
  /\ response' = [status |-> status, exit |-> exit]
  /\ file_pc' = "idle"

\* cleanup_file(image_path): the file is removed if it exists, and CACHE_DIR
\* with it when it is left empty; an exception of os.remove or os.rmdir is
\* logged and swallowed
cleanup_file(removed, rmdir) ==
  /\ cleaned' = cleaned \cup {upload}
  /\ IF upload \in temp_files /\ removed
     THEN /\ temp_files' = temp_files \ {upload}
          /\ cache_dir' = IF temp_files' = {} /\ rmdir THEN FALSE ELSE cache_dir
     ELSE UNCHANGED <<temp_files, cache_dir>>

\* a request reaches process_image
NewUpload ==
  /\ file_pc = "idle"
  /\ upload < MaxUploads
  /\ upload' = upload + 1
  /\ file_pc' = "validate"
  /\ UNCHANGED <<cache_dir, temp_files, created, cleaned, response>>

\* the tests of the upload field, the file name and its extension
ValidateUpload ==
  /\ file_pc = "validate"
  /\ \E valid \in BOOLEAN :
       IF valid
       THEN file_pc' = "cache" /\ UNCHANGED response
       ELSE Reply(400, "invalid_upload")
  /\ UNCHANGED <<upload, cache_dir, temp_files, created, cleaned>>

\* ensure_cache_dir(): os.makedirs when CACHE_DIR is missing, 500 when it raises
EnsureCacheDir ==
  /\ file_pc = "cache"
  /\ IF cache_dir
     THEN file_pc' = "save" /\ UNCHANGED <<cache_dir, response>>
     ELSE \E made \in BOOLEAN :
            IF made
            THEN cache_dir' = TRUE /\ file_pc' = "save" /\ UNCHANGED response
            ELSE Reply(500, "cache_dir") /\ UNCHANGED cache_dir
  /\ UNCHANGED <<upload, temp_files, created, cleaned>>

\* NamedTemporaryFile(dir=CACHE_DIR, suffix=".jpg", delete=False) and
\* file.save(image_path) inside its with block; on an exception of either the
\* handler returns 500
SaveUpload ==
  /\ file_pc = "save"
  /\ \E opened \in BOOLEAN, saved \in BOOLEAN :
       /\ IF opened
          THEN /\ temp_files' = temp_files \cup {upload}
               /\ created' = created \cup {upload}
          ELSE UNCHANGED <<temp_files, created>>
       /\ IF opened /\ saved
          THEN file_pc' = "mime" /\ UNCHANGED response
          ELSE Reply(500, "save_failed")
  /\ UNCHANGED <<upload, cache_dir, cleaned>>

\* validate_file_mime(image_path)
ValidateMime ==
  /\ file_pc = "mime"
  /\ \E valid \in BOOLEAN, removed \in BOOLEAN, rmdir \in BOOLEAN :
       IF valid
       THEN /\ file_pc' = "imread"
            /\ UNCHANGED <<cache_dir, temp_files, cleaned, response>>
       ELSE /\ cleanup_file(removed, rmdir)
            /\ Reply(400, "mime")
  /\ UNCHANGED <<upload, created>>

\* cv2.imread(image_path): an image, None, or an exception
ReadImage ==
  /\ file_pc = "imread"
  /\ \E got \in {"image", "None", "raised"}, removed \in BOOLEAN, rmdir \in BOOLEAN :
       IF got = "image"
       THEN /\ file_pc' = "extract"
            /\ UNCHANGED <<cache_dir, temp_files, cleaned, response>>
       ELSE /\ cleanup_file(removed, rmdir)
            /\ IF got = "None" THEN Reply(400, "unreadable") ELSE Reply(500, "opencv")
  /\ UNCHANGED <<upload, created>>

\* result = extract_nid_fields(image) in its try
ExtractFields ==
  /\ file_pc = "extract"
  /\ \E raised \in BOOLEAN, removed \in BOOLEAN, rmdir \in BOOLEAN :
       IF raised
       THEN /\ cleanup_file(removed, rmdir)
            /\ Reply(500, "extraction")
       ELSE /\ file_pc' = "similarity"
            /\ UNCHANGED <<cache_dir, temp_files, cleaned, response>>
  /\ UNCHANGED <<upload, created>>

\* the form fields and the similarity report, each in a try that goes on
CompareFields ==
  /\ file_pc = "similarity"
  /\ file_pc' = "finish"
  /\ UNCHANGED <<upload, cache_dir, temp_files, created, cleaned, response>>

\* cleanup_file(image_path); return jsonify(result)
Finish ==
  /\ file_pc = "finish"
  /\ \E removed \in BOOLEAN, rmdir \in BOOLEAN : cleanup_file(removed, rmdir)
  /\ Reply(200, "success")
  /\ UNCHANGED <<upload, created>>

(***************************************************************************)
(* Properties of the temporary file.                                       *)
(***************************************************************************)
\* the request n has been answered
Answered(n) == n < upload \/ (n = upload /\ file_pc = "idle")

\* C15: on every path on which the handler has created its temporary file,
\* cleanup_file has been called for that file before the handler returns.
C15_TempFileCleaned ==
  \A n \in created : Answered(n) => n \in cleaned

(***************************************************************************)
(* The specifications: the extraction engine, the handler's similarity     *)
(* report and the rate limiter, each with the other parts at rest.         *)
(***************************************************************************)
vars == <<evars, svars, rvars, gvars, fvars>>

Init == ExtractInit /\ SimInit /\ RateInit /\ ReaderInit /\ FileInit

Next ==
  \/ Call /\ UNCHANGED <<svars, rvars, gvars, fvars>>
  \/ CheckInput /\ UNCHANGED <<svars, rvars, gvars, fvars>>
  \/ GetReader /\ UNCHANGED <<svars, rvars, gvars, fvars>>
  \/ ReadText /\ UNCHANGED <<svars, rvars, gvars, fvars>>
  \/ ProcessBlock /\ UNCHANGED <<svars, rvars, gvars, fvars>>
  \/ Join /\ UNCHANGED <<svars, rvars, gvars, fvars>>
  \/ NameStep /\ UNCHANGED <<svars, rvars, gvars, fvars>>
  \/ DobStep /\ UNCHANGED <<svars, rvars, gvars, fvars>>
  \/ IdStep /\ UNCHANGED <<svars, rvars, gvars, fvars>>
  \/ Return /\ UNCHANGED <<svars, rvars, gvars, fvars>>
  \/ NextCall /\ UNCHANGED <<svars, rvars, gvars, fvars>>

Spec == Init /\ [][Next]_vars

AppNext ==
  \/ Extract /\ UNCHANGED <<evars, rvars, gvars, fvars>>
  \/ ReadForm /\ UNCHANGED <<evars, rvars, gvars, fvars>>
  \/ Similarity /\ UNCHANGED <<evars, rvars, gvars, fvars>>
  \/ Respond /\ UNCHANGED <<evars, rvars, gvars, fvars>>

AppSpec == Init /\ [][AppNext]_vars

RateNext ==
  \/ \E t \in Threads : Receive(t) /\ UNCHANGED <<evars, svars, gvars, fvars>>
  \/ \E t \in Threads : Authenticate(t) /\ UNCHANGED <<evars, svars, gvars, fvars>>
  \/ \E t \in Threads : ReadClock(t) /\ UNCHANGED <<evars, svars, gvars, fvars>>
  \/ \E t \in Threads : Prune(t) /\ UNCHANGED <<evars, svars, gvars, fvars>>
  \/ \E t \in Threads : GetHistory(t) /\ UNCHANGED <<evars, svars, gvars, fvars>>
  \/ \E t \in Threads : Check(t) /\ UNCHANGED <<evars, svars, gvars, fvars>>
  \/ \E t \in Threads : AppendTime(t) /\ UNCHANGED <<evars, svars, gvars, fvars>>
  \/ \E t \in Threads : StoreHistory(t) /\ UNCHANGED <<evars, svars, gvars, fvars>>
  \/ \E t \in Threads : Handler(t) /\ UNCHANGED <<evars, svars, gvars, fvars>>
  \/ Tick /\ UNCHANGED <<evars, svars, gvars, fvars>>

RateSpec == Init /\ [][RateNext]_vars

ReaderNext ==
  \/ \E t \in Threads : EnterGetReader(t) /\ UNCHANGED <<evars, svars, rvars, fvars>>
  \/ \E t \in Threads : TestReader(t) /\ UNCHANGED <<evars, svars, rvars, fvars>>
  \/ \E t \in Threads : ConstructReader(t) /\ UNCHANGED <<evars, svars, rvars, fvars>>
  \/ \E t \in Threads : AssignReader(t) /\ UNCHANGED <<evars, svars, rvars, fvars>>
  \/ \E t \in Threads : ReturnReader(t) /\ UNCHANGED <<evars, svars, rvars, fvars>>
  \/ \E t \in Threads : UseReader(t) /\ UNCHANGED <<evars, svars, rvars, fvars>>

ReaderSpec == Init /\ [][ReaderNext]_vars

FileNext ==
  \/ NewUpload /\ UNCHANGED <<evars, svars, rvars, gvars>>
  \/ ValidateUpload /\ UNCHANGED <<evars, svars, rvars, gvars>>
  \/ EnsureCacheDir /\ UNCHANGED <<evars, svars, rvars, gvars>>
  \/ SaveUpload /\ UNCHANGED <<evars, svars, rvars, gvars>>
  \/ ValidateMime /\ UNCHANGED <<evars, svars, rvars, gvars>>
  \/ ReadImage /\ UNCHANGED <<evars, svars, rvars, gvars>>
  \/ ExtractFields /\ UNCHANGED <<evars, svars, rvars, gvars>>
  \/ CompareFields /\ UNCHANGED <<evars, svars, rvars, gvars>>
  \/ Finish /\ UNCHANGED <<evars, svars, rvars, gvars>>

FileSpec == Init /\ [][FileNext]_vars
=============================================================================
